---- MODULE Spec2Model ----
(***************************************************************************)
(* makerom / dumprom: the Epson PX-8 ROM capsule packer and unpacker.      *)
(*                                                                         *)
(* Byte buffers (std::vector<uint8_t>, file contents) are sequences of     *)
(* values in 0..255; the byte at C offset o is element o+1.  File names    *)
(* and other strings are sequences of ASCII codes.                         *)
(***************************************************************************)
EXTENDS Integers, Sequences, FiniteSets, TLC

\* ------------------------------------------------------------- constants
MAGIC == 229
MAGIC_M == 55
CAPACITY_256kbit == 32
MAX_DIR_ENTRIES == 32
DIR_ENTRY_INVALID == 229
DIR_ENTRY_VALID == 0
DirEntrySize == 32
BlockSize == 1024
RecordsPerBlock == 8
MapEntries == 16
RomSize == 32768
HalfRom == 16384
RomFill == 255
NameWidth == 8
TypeWidth == 3
RomNameWidth == 14
SPACE == 32
DOT == 46

\* field offsets of RomHeader and DirEntry (packed structs)
OffId == 0
OffCapacity == 2
OffChecksum == 3
OffSystemName == 5
OffRomName == 8
OffDirEntries == 22
OffV == 23
OffVersion == 24
OffMonth == 26
OffDay == 28
OffYear == 30
OffValidity == 0
OffFileName == 1
OffFileType == 9
OffLogicalExtent == 12
OffZero == 13
OffRecordCount == 15
OffAllocationMap == 16

\* ------------------------------------------------------------- bounds
MaxFiles == 32
PageBytes == 256

\* ------------------------------------------------------------- buffers
\* n bytes of value v
Fill(n, v) == SubSeq([i \in 1..n |-> v], 1, n)

At(buf, off) == buf[off + 1]

Slice(buf, off, n) == SubSeq(buf, off + 1, off + n)

\* memset(&buf[off], v, n)
Memset(buf, off, v, n) ==
  SubSeq(buf, 1, off) \o Fill(n, v) \o SubSeq(buf, off + n + 1, Len(buf))

\* memcpy(&buf[off], src, n)
Memcpy(buf, off, src, n) ==
  SubSeq(buf, 1, off) \o SubSeq(src, 1, n) \o SubSeq(buf, off + n + 1, Len(buf))

\* a resize that leaves the new elements unset (here 0xff)
ResizeUnset(buf, n) == buf \o Fill(n - Len(buf), RomFill)

\* std::vector<uint8_t>::resize(n), n >= size: new elements are value-initialised
Resize(buf, n) == buf \o Fill(n - Len(buf), 0)

Min(a, b) == IF a < b THEN a ELSE b

CeilDiv(a, b) == IF a % b = 0 THEN a \div b ELSE (a \div b) + 1

\* Large buffers are held in the state as a sequence of pages of PageBytes
\* bytes; Store cuts a buffer into pages, Load joins the pages back.
Store(buf) ==
  LET n == CeilDiv(Len(buf), PageBytes)
  IN SubSeq([p \in 1..n |-> SubSeq(buf, ((p - 1) * PageBytes) + 1, Min(p * PageBytes, Len(buf)))],
            1, n)

RECURSIVE Join(_, _, _)
Join(pages, lo, hi) ==
  IF lo > hi THEN << >>
  ELSE IF lo = hi THEN pages[lo]
  ELSE LET mid == (lo + hi) \div 2
       IN Join(pages, lo, mid) \o Join(pages, mid + 1, hi)

Load(pages) == Join(pages, 1, Len(pages))

\* the physical/logical address conversion of a 27256: the halves change places
SwapHalves(rom) == SubSeq(rom, HalfRom + 1, Len(rom)) \o SubSeq(rom, 1, HalfRom)

\* ------------------------------------------------------------- host files
\* An input file on the host: its path as given on the command line, whether
\* it can be opened, and its bytes (len bytes: head, then fill repeated).
File(name, readable, len, head, fill) ==
  [name |-> name, readable |-> readable, len |-> len, head |-> head, fill |-> fill]

Contents(f) ==
  IF f.len <= Len(f.head) THEN SubSeq(f.head, 1, f.len)
  ELSE f.head \o Fill(f.len - Len(f.head), f.fill)

\* no file at a path (no stored byte sequence)
Absent == << << -1 >> >>

\* ------------------------------------------------------------- makerom
\* std::string::find_last_of('.'): the C offset of the last dot, -1 for npos
FindLastDot(full) ==
  LET dots == {i \in 1..Len(full) : full[i] = DOT}
  IN IF dots = {} THEN -1 ELSE (CHOOSE i \in dots : \A j \in dots : j <= i) - 1

\* split_file_name: [ok, name[8], type[3]]; not ok is fatal("Input files must be 8.3")
split_file_name(full) ==
  LET pos == FindLastDot(full)
      sname == SubSeq(full, 1, pos)
      sext == SubSeq(full, pos + 2, Len(full))
  IN IF pos = -1
       THEN [ok |-> FALSE, name |-> <<>>, type |-> <<>>]
     ELSE IF Len(sname) < 1 \/ Len(sname) > NameWidth \/ Len(sext) < 1 \/ Len(sext) > TypeWidth
       THEN [ok |-> FALSE, name |-> <<>>, type |-> <<>>]
     ELSE [ok |-> TRUE,
           name |-> Memcpy(Fill(NameWidth, SPACE), 0, sname, Len(sname)),
           type |-> Memcpy(Fill(TypeWidth, SPACE), 0, sext, Len(sext))]

\* an existence test that never finds the output
OutputNeverExists(f) == FALSE

\* outFile.open(outName); if(outFile): the output file already exists
OutputExists(f) == f # Absent

\* "Initialise ROM header": the directory buffer with DirEntry 0 as the header
InitialDirectory(outName) ==
  LET d0 == Fill(DirEntrySize * MAX_DIR_ENTRIES, DIR_ENTRY_INVALID)
      d1 == [d0 EXCEPT ![OffId + 1] = MAGIC, ![OffId + 2] = MAGIC_M,
                       ![OffCapacity + 1] = CAPACITY_256kbit]
      d2 == Memcpy(d1, OffSystemName, <<72, 56, 48>>, 3)
      d3 == Memset(d2, OffRomName, SPACE, RomNameWidth)
      d4 == Memcpy(d3, OffRomName, outName, Min(Len(outName), RomNameWidth))
      d5 == [d4 EXCEPT ![OffDirEntries + 1] = 4, ![OffV + 1] = 86,
                       ![OffVersion + 1] = 49, ![OffVersion + 2] = 48]
      d6 == Memcpy(d5, OffMonth, <<49, 49>>, 2)
      d7 == Memcpy(d6, OffDay, <<49, 54>>, 2)
  IN Memcpy(d7, OffYear, <<50, 48>>, 2)

\* &dirBase[slot] as an offset into the directory buffer
SlotOffset(slot) == slot * DirEntrySize

\* memset(&dirBase[slot], 0, sizeof(DirEntry)); copy name and type; set logical_extent
ReserveEntry(dir, slot, name, type, extent) ==
  LET z == Memset(dir, SlotOffset(slot), 0, DirEntrySize)
      n == Memcpy(z, SlotOffset(slot) + OffFileName, name, NameWidth)
      t == Memcpy(n, SlotOffset(slot) + OffFileType, type, TypeWidth)
  IN [t EXCEPT ![SlotOffset(slot) + OffLogicalExtent + 1] = extent % 256]

\* a directory test that lets slot 32 through
DirectoryFullOffByOne(cd) == cd > MAX_DIR_ENTRIES

\* ++currentDirectory > MAX_DIR_ENTRIES-1, on the incremented value
DirectoryFull(cd) == cd > MAX_DIR_ENTRIES - 1

\* an allocation map taken to be full one entry early
EntryFullEarly(allocationIndex) == allocationIndex >= MapEntries - 1

\* allocationIndex >= 16: the current entry's allocation map is full
EntryFull(allocationIndex) == allocationIndex >= MapEntries

\* a block counter that is never advanced
NextBlockStuck(n) == n

\* nextAllocation++ on a uint8_t
NextBlock(n) == (n + 1) % 256

\* record_count += (1024/128) on a uint8_t
AddRecords(rc) == (rc + (BlockSize \div 128)) % 256

\* "Calculate number of 1K chunks"
Chunks(size) == (size + 1023) \div BlockSize

\* one iteration of "Append to file area in 1K chunks".  st carries the directory
\* buffer, currentDirectory, allocationIndex, nextLogicalExtent, nextAllocation,
\* the chunks copied so far and whether fatal() was called (which ends the run).
ChunkStep(st, name, type) ==
  IF st.fatal THEN st
  ELSE
    LET full == EntryFull(st.ai)
        cd == IF full THEN (st.cd + 1) % 256 ELSE st.cd
    IN IF full /\ DirectoryFull(cd)
         THEN [st EXCEPT !.cd = cd, !.fatal = TRUE]
       ELSE
         LET d0 == IF full THEN ReserveEntry(st.dir, cd, name, type, st.ext) ELSE st.dir
             ai == IF full THEN 0 ELSE st.ai
             ext == IF full THEN st.ext + 1 ELSE st.ext
             rcAt == SlotOffset(cd) + OffRecordCount + 1
             mapAt == SlotOffset(cd) + OffAllocationMap + ai + 1
             d1 == [d0 EXCEPT ![rcAt] = AddRecords(d0[rcAt]), ![mapAt] = st.na]
         IN [dir |-> d1, cd |-> cd, ai |-> ai + 1, ext |-> ext,
             na |-> NextBlock(st.na), copied |-> st.copied + 1, fatal |-> FALSE]

\* the iterations iChunk = lo .. hi-1 of the loop, in order
RECURSIVE ChunkLoop(_, _, _, _, _)
ChunkLoop(st, lo, hi, name, type) ==
  IF lo >= hi THEN st
  ELSE IF hi = lo + 1 THEN ChunkStep(st, name, type)
  ELSE LET mid == (lo + hi) \div 2
           left == ChunkLoop(st, lo, mid, name, type)
       IN IF left.fatal THEN left ELSE ChunkLoop(left, mid, hi, name, type)

\* "pad file to 1KB boundary": resize, then memset(&buffer[size-diff], (int)diff, 0)
PadBuffer(buffer) ==
  LET chunks == Chunks(Len(buffer))
      diff == (chunks * BlockSize) - Len(buffer)
  IN IF Len(buffer) < chunks * BlockSize
       THEN LET r == Resize(buffer, Len(buffer) + diff)
            IN Memset(r, Len(r) - diff, diff % 256, 0)
       ELSE buffer

\* file_area after resize(size + chunks*1024) and `copied` memcpy's of 1024 bytes
AppendChunks(area, padded, chunks, copied) ==
  Memcpy(Resize(area, Len(area) + (chunks * BlockSize)), Len(area), padded, copied * BlockSize)

\* hdr->dir_entries = ((currentDirectory + 3) / 4) * 4
DirEntriesFor(cd) == (((cd + 3) \div 4) * 4) % 256

\* a checksum stored high byte first
ChecksumBytesSwapped(size) == << ((size % 65536) \div 256) % 256, (size % 65536) % 256 >>

\* uint16_t checksum = (uint16_t)file_area.size(), stored low byte, high byte
ChecksumBytes(size) == << (size % 65536) % 256, ((size % 65536) \div 256) % 256 >>

\* (dir_entries * sizeof(DirEntry)) + file_area.size() > romSize
OutOfRom(dirEntries, areaSize) == (dirEntries * DirEntrySize) + areaSize > RomSize

\* the 0xff-filled ROM with the directory and the file area copied in, halves swapped
BuildRom(dir, dirEntries, area) ==
  LET r0 == Fill(RomSize, RomFill)
      r1 == Memcpy(r0, 0, dir, dirEntries * DirEntrySize)
      r2 == Memcpy(r1, dirEntries * DirEntrySize, area, Len(area))
  IN IF At(dir, OffCapacity) = CAPACITY_256kbit THEN SwapHalves(r2) ELSE r2

\* ------------------------------------------------------------- state
VARIABLES
  outName,          \* argv[1] of makerom
  inputs,           \* argv[2..] of makerom with the host files they name
  writable,         \* host: "ok", "noopen" or "short" for the write of the ROM
  romFile,          \* the file at outName (dumprom's argv[1]): Absent or its bytes, stored
  pc,               \* position of the run
  result,           \* how makerom ended ("" while it runs)
  directory,        \* makerom: the directory buffer (dirBase, hdr)
  file_area,        \* makerom: the file area buffer, stored
  currentDirectory, \* makerom: uint8_t currentDirectory
  nextAllocation,   \* makerom: uint8_t nextAllocation
  iFile,            \* makerom: index of the next input file (1-based)
  opened,           \* makerom: indexes of the input files opened so far
  romBefore,        \* the file at outName when makerom started
  romBase,          \* dumprom: the image read, halves swapped back, stored
  dresult,          \* how dumprom ended ("" while it runs)
  dirNo,            \* dumprom: uint8_t dirNo
  outFile,          \* dumprom: the path outFile is open on, or Closed
  cwd,              \* dumprom: the files created: path -> bytes, stored
  examined          \* dumprom: the directory slots the loop has looked at

pvars == << outName, inputs, writable, romFile, result, directory, file_area,
            currentDirectory, nextAllocation, iFile, opened, romBefore >>

dvars == << romBase, dresult, dirNo, outFile, cwd, examined >>

vars == << pc, pvars, dvars >>

\* main, lines 136-174: refuse an existing output, initialise header and counters
PackStart ==
  /\ pc = "makerom"
  /\ IF OutputExists(romFile)
       THEN /\ pc' = "exit"
            /\ result' = "OutputExists"
            /\ UNCHANGED << directory, file_area, currentDirectory, nextAllocation, iFile >>
       ELSE /\ pc' = "files"
            /\ result' = ""
            /\ directory' = InitialDirectory(outName)
            /\ file_area' = << >>
            /\ currentDirectory' = 0
            /\ nextAllocation' = 1
            /\ iFile' = 1
  /\ UNCHANGED << outName, inputs, writable, romFile, opened, romBefore >>
  /\ UNCHANGED dvars

\* main, lines 177-248: one iteration of "Process each file"
PlaceFile ==
  /\ pc = "files"
  /\ iFile <= Len(inputs)
  /\ LET f == inputs[iFile]
         cd == (currentDirectory + 1) % 256
         split == split_file_name(f.name)
         buffer == PadBuffer(Contents(f))
         chunks == Chunks(f.len)
         reserved == ReserveEntry(directory, cd, split.name, split.type, 0)
         st == ChunkLoop([dir |-> reserved, cd |-> cd, ai |-> 0, ext |-> 1,
                          na |-> nextAllocation, copied |-> 0, fatal |-> FALSE],
                         0, chunks, split.name, split.type)
     IN IF DirectoryFull(cd)
          THEN /\ pc' = "exit"
               /\ result' = "OutOfDirectorySpace"
               /\ currentDirectory' = cd
               /\ UNCHANGED << directory, file_area, nextAllocation, iFile, opened >>
        ELSE IF ~f.readable
          THEN /\ pc' = "exit"
               /\ result' = "InputOpenFailed"
               /\ currentDirectory' = cd
               /\ UNCHANGED << directory, file_area, nextAllocation, iFile, opened >>
        ELSE IF ~split.ok
          THEN /\ pc' = "exit"
               /\ result' = "BadFileName"
               /\ currentDirectory' = cd
               /\ opened' = opened \cup {iFile}
               /\ UNCHANGED << directory, file_area, nextAllocation, iFile >>
        ELSE /\ pc' = IF st.fatal THEN "exit" ELSE "files"
             /\ result' = IF st.fatal THEN "OutOfDirectorySpace" ELSE ""
             /\ directory' = st.dir
             /\ file_area' = Store(AppendChunks(Load(file_area), buffer, chunks, st.copied))
             /\ currentDirectory' = st.cd
             /\ nextAllocation' = st.na
             /\ iFile' = IF st.fatal THEN iFile ELSE iFile + 1
             /\ opened' = opened \cup {iFile}
  /\ UNCHANGED << outName, inputs, writable, romFile, romBefore >>
  /\ UNCHANGED dvars

\* main, lines 250-291: update the header, check the size, build, swap and write
Finalise ==
  /\ pc = "files"
  /\ iFile > Len(inputs)
  /\ LET area == Load(file_area)
         de == DirEntriesFor(currentDirectory)
         ck == ChecksumBytes(Len(area))
         dir == [directory EXCEPT ![OffDirEntries + 1] = de,
                                  ![OffChecksum + 1] = ck[1],
                                  ![OffChecksum + 2] = ck[2]]
         rom == BuildRom(dir, de, area)
     IN /\ directory' = dir
        /\ IF OutOfRom(de, Len(area))
             THEN /\ pc' = "exit"
                  /\ result' = "OutOfRomSpace"
                  /\ UNCHANGED romFile
           ELSE IF writable = "noopen"
             THEN /\ pc' = "exit"
                  /\ result' = "OutputOpenFailed"
                  /\ UNCHANGED romFile
           ELSE IF writable = "short"
             THEN /\ pc' = "exit"
                  /\ result' = "OutputWriteFailed"
                  /\ romFile' = Store(SubSeq(rom, 1, HalfRom))
           ELSE /\ pc' = "dumprom"
                /\ result' = "Ok"
                /\ romFile' = Store(rom)
  /\ UNCHANGED << outName, inputs, writable, file_area, currentDirectory,
                  nextAllocation, iFile, opened, romBefore >>
  /\ UNCHANGED dvars

\* ------------------------------------------------------------- dumprom
Closed == << >>

\* the header field dir_entries of the image in romBase
HdrDirEntries(buf) == At(buf, OffDirEntries)

\* the magic test of dump_files: TRUE when the image is refused
NotAValidRom(buf) == At(buf, OffId) # MAGIC /\ At(buf, OffId + 1) # MAGIC_M

\* the asserts of file_area_offset
FileAreaAssert(buf) == HdrDirEntries(buf) % 4 = 0 /\ HdrDirEntries(buf) <= MAX_DIR_ENTRIES

\* file_area_offset: fileBase as an offset into the image
FileAreaOffset(buf) == HdrDirEntries(buf) * DirEntrySize

\* dir_entry_offset as an offset into the image
DirEntryOffset(dir_entry) == dir_entry * DirEntrySize

\* block_address as an offset into the image
BlockAddress(fileBase, blockNo) == fileBase + ((blockNo - 1) * BlockSize)

\* while(dirNo <= header->dir_entries)
LoopCondition(n, dirEntries) == n <= dirEntries

\* trim: the string up to its first space
trim(str) ==
  LET sp == {i \in 1..Len(str) : str[i] = SPACE}
  IN IF sp = {} THEN str
     ELSE SubSeq(str, 1, (CHOOSE i \in sp : \A j \in sp : i <= j) - 1)

\* c_str() handed to open(): the path ends at its first NUL
CStr(str) ==
  LET z == {i \in 1..Len(str) : str[i] = 0}
  IN IF z = {} THEN str
     ELSE SubSeq(str, 1, (CHOOSE i \in z : \A j \in z : i <= j) - 1)

\* the 1024 bytes write() takes at block_address; a byte past the end of the
\* image is an out-of-bounds read and yields g
ReadBlock(buf, addr, g) ==
  IF addr + BlockSize <= Len(buf) THEN Slice(buf, addr, BlockSize)
  ELSE IF addr >= Len(buf) THEN Fill(BlockSize, g)
  ELSE SubSeq(buf, addr + 1, Len(buf)) \o Fill(addr + BlockSize - Len(buf), g)

\* "Write each block in the allocation map": the bytes written for map entries i..15
RECURSIVE WriteBlocks(_, _, _, _)
WriteBlocks(buf, entry, i, g) ==
  IF i >= MapEntries THEN << >>
  ELSE LET blockNo == At(buf, entry + OffAllocationMap + i)
       IN (IF blockNo # 0
             THEN ReadBlock(buf, BlockAddress(FileAreaOffset(buf), blockNo), g)
             ELSE << >>)
          \o WriteBlocks(buf, entry, i + 1, g)

\* whether an entry's allocation map names a block that reaches past the image
ReadsPastEnd(buf, entry) ==
  \E i \in 0..(MapEntries - 1) :
    /\ At(buf, entry + OffAllocationMap + i) # 0
    /\ BlockAddress(FileAreaOffset(buf), At(buf, entry + OffAllocationMap + i)) + BlockSize
         > Len(buf)

\* what an out-of-bounds read may do: -1 stops the process, else the byte read
PastEndOutcomes == {-1, 0, RomFill}

\* main of dumprom: read the image; a 0x8000-byte image has its halves swapped back
DumpLoad ==
  /\ pc = "dumprom"
  /\ IF romFile = Absent
       THEN /\ pc' = "exit"
            /\ dresult' = "InputOpenFailed"
            /\ UNCHANGED romBase
       ELSE /\ pc' = "header"
            /\ dresult' = ""
            /\ romBase' = LET buffer == Load(romFile)
                           IN IF Len(buffer) = RomSize THEN Store(SwapHalves(buffer))
                              ELSE romFile
  /\ UNCHANGED << dirNo, outFile, cwd, examined >>
  /\ UNCHANGED pvars

\* dump_files, lines 111-127: the magic test and file_area_offset's asserts
DumpHeader ==
  /\ pc = "header"
  /\ IF NotAValidRom(Load(romBase))
       THEN /\ pc' = "exit"
            /\ dresult' = "NotARom"
     ELSE IF ~FileAreaAssert(Load(romBase))
       THEN /\ pc' = "exit"
            /\ dresult' = "AssertFailed"
     ELSE /\ pc' = "walk"
          /\ dresult' = ""
  /\ dirNo' = 1
  /\ outFile' = Closed
  /\ UNCHANGED << romBase, cwd, examined >>
  /\ UNCHANGED pvars

\* dump_files, lines 129-181: one iteration of "Enumerate files"
DumpSlot ==
  /\ pc = "walk"
  /\ LET image == Load(romBase)
         dir == DirEntryOffset(dirNo)
         valid == At(image, dir + OffValidity) = 0
         first == At(image, dir + OffLogicalExtent) = 0
         fileName == trim(Slice(image, dir + OffFileName, NameWidth))
         extension == trim(Slice(image, dir + OffFileType, TypeWidth))
         path == CStr(fileName \o << DOT >> \o extension)
     IN /\ LoopCondition(dirNo, HdrDirEntries(image))
        /\ \E g \in (IF valid /\ ReadsPastEnd(image, dir) THEN PastEndOutcomes ELSE {0}) :
             /\ examined' = Append(examined, dirNo)
             /\ IF ~valid
                  THEN /\ pc' = "walk"
                       /\ dresult' = ""
                       /\ UNCHANGED << outFile, cwd >>
                ELSE IF first /\ path = << >>
                  THEN /\ pc' = "exit"
                       /\ dresult' = "OutputOpenFailed"
                       /\ outFile' = Closed
                       /\ UNCHANGED cwd
                ELSE IF g = -1
                  THEN /\ pc' = "exit"
                       /\ dresult' = "Crashed"
                       /\ outFile' = IF first THEN path ELSE outFile
                       /\ cwd' = IF first THEN (path :> << >>) @@ cwd ELSE cwd
                ELSE /\ pc' = "walk"
                     /\ dresult' = ""
                     /\ outFile' = IF first THEN path ELSE outFile
                     /\ cwd' = IF first
                                 THEN (path :> Store(WriteBlocks(image, dir, 0, g))) @@ cwd
                               ELSE IF outFile # Closed
                                 THEN [cwd EXCEPT ![outFile] =
                                         Store(Load(@) \o WriteBlocks(image, dir, 0, g))]
                               ELSE cwd
             /\ dirNo' = (dirNo + 1) % 256
  /\ UNCHANGED romBase
  /\ UNCHANGED pvars

\* dump_files, lines 183-186: the loop is over, close the last file
DumpClose ==
  /\ pc = "walk"
  /\ ~LoopCondition(dirNo, HdrDirEntries(Load(romBase)))
  /\ pc' = "exit"
  /\ dresult' = "Ok"
  /\ outFile' = Closed
  /\ UNCHANGED << romBase, dirNo, cwd, examined >>
  /\ UNCHANGED pvars

\* ------------------------------------------------------------- runs
\* The command lines and host files the runs start from.
OutRom == << 79, 85, 84, 46, 82, 79, 77 >>          \* "OUT.ROM"

OldRom == Store(<< 1, 2, 3 >>)                             \* bytes of a file already at OUT.ROM

GenName(i) == << 70, 48 + (i \div 10), 48 + (i % 10), DOT, 66, 73, 78 >>   \* "F07.BIN"

Hello == [len |-> 6, head |-> << 72, 101, 108, 108, 111, 10 >>, fill |-> 0]

FullK == [len |-> BlockSize, head |-> << >>, fill |-> 170]

RestKinds == { Hello, FullK }

\* a 32-byte head that reads as a valid directory entry "EVIL.X" with the given
\* logical_extent and first allocation map entry
EntryHead(extent, block) ==
  << 0, 69, 86, 73, 76, 32, 32, 32, 32, 88, 32, 32, extent, 0, 0, 8, block >>

Specials ==
  { File(<< >>, TRUE, 0, << >>, 0),
    File(<< >>, TRUE, BlockSize + 1, << >>, 85),
    File(<< >>, TRUE, MapEntries * BlockSize, << >>, 170),
    File(<< >>, TRUE, (MapEntries * BlockSize) + 1, << >>, 170),
    File(<< 66, 73, 71, DOT, 66, 73, 78 >>, TRUE, 20 * BlockSize, << >>, 170),
    File(<< >>, TRUE, 31 * BlockSize, << >>, 17),
    File(<< >>, TRUE, RomSize, << >>, 17),
    File(<< >>, TRUE, 256 * BlockSize, << >>, 17),
    File(<< >>, TRUE, BlockSize, EntryHead(0, 1), 0),
    File(<< >>, TRUE, BlockSize, EntryHead(1, 1), 0),
    File(<< >>, TRUE, BlockSize, EntryHead(0, 200), 0),
    File(<< >>, TRUE, BlockSize, << >>, 0),
    File(<< >>, FALSE, 0, << >>, 0),
    File(<< 78, 79, 69, 88, 84 >>, TRUE, 6, << >>, 65),
    File(<< 76, 79, 78, 71, 78, 65, 77, 69, 57, DOT, 88 >>, TRUE, 6, << >>, 65),
    File(<< 65, DOT, 76, 79, 78, 71 >>, TRUE, 6, << >>, 65),
    File(<< DOT, 88 >>, TRUE, 6, << >>, 65),
    File(<< 65, DOT >>, TRUE, 6, << >>, 65),
    File(<< 77, 89, SPACE, 70, DOT, 84, 88, 84 >>, TRUE, 6, << >>, 65) }

\* how many plain files accompany a special one
SpecialRest == { 0, 1, 3, 30 }

Plain(i, k) == File(GenName(i), TRUE, k.len, k.head, k.fill)

Special(i, sp) == IF sp.name = << >> THEN [sp EXCEPT !.name = GenName(i)] ELSE sp

PlainList(n, k) == [i \in 1..n |-> Plain(i, k)]

\* n plain files with the special one put at position pos
SpecialList(n, k, sp, pos) ==
  [i \in 1..(n + 1) |-> IF i = pos THEN Special(i, sp) ELSE Plain(i, k)]

CommandLines ==
  { PlainList(n, k) : n \in 0..MaxFiles, k \in RestKinds }
  \cup { SpecialList(n, Hello, sp, 1) : n \in SpecialRest, sp \in Specials }
  \cup { SpecialList(n, Hello, sp, n + 1) : n \in SpecialRest, sp \in Specials }

\* images not made by makerom: a header with the given id bytes and dir_entries,
\* one valid entry "A.B" holding block 1, as stored (halves swapped when 0x8000 long)
ForeignImage(size, id0, id1, dirEntries) ==
  LET r0 == Fill(size, RomFill)
      r1 == [r0 EXCEPT ![OffId + 1] = id0, ![OffId + 2] = id1,
                       ![OffCapacity + 1] = CAPACITY_256kbit,
                       ![OffDirEntries + 1] = dirEntries]
      r2 == ReserveEntry(r1, 1, << 65, 32, 32, 32, 32, 32, 32, 32 >>, << 66, 32, 32 >>, 0)
      r3 == [r2 EXCEPT ![SlotOffset(1) + OffRecordCount + 1] = RecordsPerBlock,
                       ![SlotOffset(1) + OffAllocationMap + 1] = 1]
  IN Store(IF size = RomSize THEN SwapHalves(r3) ELSE r3)

ForeignImages ==
  { ForeignImage(size, id0, id1, de) :
      size \in { RomSize, HalfRom }, id0 \in { MAGIC, 0 }, id1 \in { MAGIC_M, 80 },
      de \in { 4, 5, 36 } }

Init ==
  /\ outName = OutRom
  /\ result = ""
  /\ directory = << >>
  /\ file_area = << >>
  /\ currentDirectory = 0
  /\ nextAllocation = 1
  /\ iFile = 1
  /\ opened = {}
  /\ romBase = << >>
  /\ dresult = ""
  /\ dirNo = 1
  /\ outFile = Closed
  /\ cwd = << >>
  /\ examined = << >>
  /\ \/ /\ pc = "makerom"
        /\ inputs \in CommandLines
        /\ romFile \in { Absent, OldRom }
        /\ writable \in { "ok", "noopen", "short" }
        /\ writable # "ok" => Len(inputs) <= 2
     \/ /\ pc = "dumprom"
        /\ inputs = << >>
        /\ romFile \in ForeignImages \cup { Absent }
        /\ writable = "ok"
  /\ romBefore = romFile

Next ==
  \/ PackStart
  \/ PlaceFile
  \/ Finalise
  \/ DumpLoad
  \/ DumpHeader
  \/ DumpSlot
  \/ DumpClose

Spec == Init /\ [][Next]_vars

\* ------------------------------------------------------------- properties
\* What the specification says of an input file, computed from the file alone.
ChunksOf(f) == CeilDiv(f.len, BlockSize)

SlotsOf(f) == IF ChunksOf(f) <= MapEntries THEN 1 ELSE CeilDiv(ChunksOf(f), MapEntries)

RoundUp4(n) == CHOOSE m \in n..(n + 3) : m % 4 = 0

\* the file's bytes right-padded with 0x00 to the next multiple of 1024
ZeroPadded(f) == Contents(f) \o Fill((ChunksOf(f) * BlockSize) - f.len, 0)

RECURSIVE ChunksBefore(_)
ChunksBefore(i) == IF i <= 1 THEN 0 ELSE ChunksBefore(i - 1) + ChunksOf(inputs[i - 1])

RECURSIVE SlotsBefore(_)
SlotsBefore(i) == IF i <= 1 THEN 0 ELSE SlotsBefore(i - 1) + SlotsOf(inputs[i - 1])

TotalChunks == ChunksBefore(Len(inputs) + 1)

TotalSlots == SlotsBefore(Len(inputs) + 1)

InputIds == 1..Len(inputs)

AllReadable == \A i \in InputIds : inputs[i].readable

AllNamed83 == \A i \in InputIds : split_file_name(inputs[i].name).ok

NoSpaces == \A i \in InputIds : \A k \in 1..Len(inputs[i].name) : inputs[i].name[k] # SPACE

DistinctNames == \A i, j \in InputIds : i # j => inputs[i].name # inputs[j].name

PackSucceeded == result = "Ok"

\* Finalise has updated the header
Finalised == result \in { "Ok", "OutOfRomSpace", "OutputOpenFailed", "OutputWriteFailed" }

\* the image makerom wrote, halves swapped back
Unswapped == SwapHalves(Load(romFile))

\* the non-zero allocation map entries of a directory slot, in map order
MapOf(buf, slot) ==
  SelectSeq(Slice(buf, SlotOffset(slot) + OffAllocationMap, MapEntries), LAMBDA b : b # 0)

\* the non-zero allocation map entries of the valid slots from..to, in slot order
RECURSIVE AllocList(_, _, _)
AllocList(buf, from, to) ==
  IF from > to THEN << >>
  ELSE (IF At(buf, SlotOffset(from) + OffValidity) = DIR_ENTRY_VALID
          THEN MapOf(buf, from) ELSE << >>)
       \o AllocList(buf, from + 1, to)

\* C1: round trip.  After a successful pack of one or more readable files with
\* distinct valid 8.3 names, dumprom on the written image ends normally having
\* created exactly one file per input, named NAME.EXT, holding the input's
\* bytes right-padded with 0x00 to a multiple of 1024.
C1_RoundTrip ==
  (pc = "exit" /\ PackSucceeded /\ Len(inputs) >= 1 /\ AllNamed83 /\ NoSpaces /\ DistinctNames)
    => /\ dresult = "Ok"
       /\ DOMAIN cwd = { inputs[i].name : i \in InputIds }
       /\ \A i \in InputIds : Load(cwd[inputs[i].name]) = ZeroPadded(inputs[i])

\* C2: when the header is finalised with 1..31 used slots, dir_entries is the
\* smallest multiple of 4 that is >= highest used slot + 1, and every slot the
\* packer filled is in the directory region of the written image.
C2_DirEntriesCoverUsedSlots ==
  (Finalised /\ currentDirectory \in 1..(MAX_DIR_ENTRIES - 1))
    => /\ At(directory, OffDirEntries) = RoundUp4(currentDirectory + 1)
       /\ PackSucceeded =>
            LET image == Unswapped
            IN \A slot \in 1..currentDirectory :
                 /\ slot < At(directory, OffDirEntries)
                 /\ Slice(image, SlotOffset(slot), DirEntrySize)
                      = Slice(directory, SlotOffset(slot), DirEntrySize)

\* C3: the unpacker looks at slots 1 .. dir_entries-1 only, in ascending order,
\* so that bytes of the file area are never read as a directory entry.
C3_WalksDirectorySlotsOnly ==
  /\ \A k \in 1..Len(examined) :
       examined[k] = k /\ examined[k] <= HdrDirEntries(Load(romBase)) - 1
  /\ (PackSucceeded /\ AllNamed83 /\ NoSpaces) =>
       DOMAIN cwd \subseteq { inputs[i].name : i \in InputIds }

\* dump_files is past its magic test
HeaderChecked == pc = "walk" \/ (pc = "exit" /\ dresult \notin { "", "InputOpenFailed" })

\* C4: an image whose header does not have both id[0] = 0xE5 and id[1] = 0x37
\* is refused with NotARom before any output file is opened.
C4_RejectsForeignImage ==
  (HeaderChecked /\ ~(At(Load(romBase), OffId) = MAGIC /\ At(Load(romBase), OffId + 1) = MAGIC_M))
    => dresult = "NotARom" /\ DOMAIN cwd = {}

\* C5: allocation uniqueness.  In a successful pack the non-zero allocation map
\* entries, read slot by slot, are 1, 2, 3 ... up to the number of blocks stored
\* (so unique, sequential across files, the 8-bit counter not wrapped), none is
\* above (rom_size - dir_entries*32) / 1024, and the same holds of the valid
\* slots 1 .. dir_entries-1 of the written image.
C5_AllocationUnique ==
  PackSucceeded =>
    LET de == At(directory, OffDirEntries)
        maxBlock == (RomSize - (de * DirEntrySize)) \div BlockSize
        inBuffer == AllocList(directory, 1, MAX_DIR_ENTRIES - 1)
        inImage == AllocList(Unswapped, 1, de - 1)
    IN /\ inBuffer = [k \in 1..TotalChunks |-> k]
       /\ TotalChunks <= maxBlock
       /\ nextAllocation = TotalChunks + 1
       /\ \A k \in 1..Len(inImage) : inImage[k] \in 1..maxBlock
       /\ \A j, k \in 1..Len(inImage) : j < k => inImage[j] < inImage[k]

C5_Witness ==
  /\ PackSucceeded
  /\ Len(inputs) >= 2
  /\ nextAllocation >= MapEntries + 3
  /\ Len(AllocList(Unswapped, 1, At(directory, OffDirEntries) - 1)) >= MapEntries + 2

\* the name[8] and type[3] fields of an input file with a valid 8.3 name
NameField(f) ==
  LET n == SubSeq(f.name, 1, FindLastDot(f.name)) IN n \o Fill(NameWidth - Len(n), SPACE)

TypeField(f) ==
  LET t == SubSeq(f.name, FindLastDot(f.name) + 2, Len(f.name))
  IN t \o Fill(TypeWidth - Len(t), SPACE)

\* C6: extent ordering.  Once every file is placed (a pack of at most 255
\* blocks, as every pack that fits the ROM is), every input file of c chunks has
\* max(1, ceil(c/16)) consecutive slots with its name and type and
\* logical_extent 0, 1, 2 ...; every slot but the last holds 16 block numbers,
\* the last the rest followed by zeros; record_count is 8 times the number of
\* non-zero map entries; the slots of all files fill 1 .. currentDirectory.
C6_ExtentOrder ==
  (Finalised /\ TotalChunks <= 255) =>
    /\ currentDirectory = TotalSlots
    /\ \A i \in InputIds :
         LET f == inputs[i]
             c == ChunksOf(f)
         IN \A e \in 0..(SlotsOf(f) - 1) :
              LET at == SlotOffset(SlotsBefore(i) + 1 + e)
                  held == IF c - (MapEntries * e) >= MapEntries THEN MapEntries
                          ELSE c - (MapEntries * e)
                  map == Slice(directory, at + OffAllocationMap, MapEntries)
              IN /\ At(directory, at + OffValidity) = DIR_ENTRY_VALID
                 /\ Slice(directory, at + OffFileName, NameWidth) = NameField(f)
                 /\ Slice(directory, at + OffFileType, TypeWidth) = TypeField(f)
                 /\ At(directory, at + OffLogicalExtent) = e
                 /\ Slice(directory, at + OffZero, 2) = << 0, 0 >>
                 /\ e < SlotsOf(f) - 1 => held = MapEntries
                 /\ \A k \in 1..MapEntries : (map[k] # 0) <=> (k <= held)
                 /\ At(directory, at + OffRecordCount) = RecordsPerBlock * held
                 /\ At(directory, at + OffRecordCount) <= 128

C6_Witness ==
  /\ PackSucceeded
  /\ \E i \in InputIds : ChunksOf(inputs[i]) = MapEntries + 1 /\ SlotsBefore(i) = 3
  /\ At(directory, SlotOffset(5) + OffLogicalExtent) = 1
  /\ At(directory, SlotOffset(5) + OffRecordCount) = RecordsPerBlock

\* C7: header well-formedness.  After a successful pack of at least one file the
\* header of the un-swapped image has id = [0xE5, 0x37], capacity 0x20,
\* dir_entries a multiple of 4 in 4..0x20, and checksum = len(file_area) mod
\* 2^16, low byte first.
C7_HeaderWellFormed ==
  (PackSucceeded /\ Len(inputs) >= 1) =>
    LET hdr == Slice(Unswapped, 0, DirEntrySize)
        size == (TotalChunks * BlockSize) % 65536
    IN /\ At(hdr, OffId) = 229 /\ At(hdr, OffId + 1) = 55
       /\ At(hdr, OffCapacity) = 32
       /\ At(hdr, OffDirEntries) % 4 = 0
       /\ At(hdr, OffDirEntries) >= 4 /\ At(hdr, OffDirEntries) <= 32
       /\ Len(Load(file_area)) = TotalChunks * BlockSize
       /\ At(hdr, OffChecksum) = size % 256
       /\ At(hdr, OffChecksum + 1) = size \div 256

C7_Witness ==
  /\ PackSucceeded
  /\ Len(inputs) = 4
  /\ At(Unswapped, OffDirEntries) = 8
  /\ At(Unswapped, OffChecksum) = 0
  /\ At(Unswapped, OffChecksum + 1) = 92

\* C8: directory exhaustion.  With every input readable and named 8.3, the pack
\* ends with OutOfDirectorySpace exactly when the files need more than 31
\* directory slots (one per file, one more per further 16 blocks).
C8_OutOfDirectoryIff ==
  (result # "" /\ romBefore = Absent /\ AllReadable /\ AllNamed83)
    => (result = "OutOfDirectorySpace" <=> TotalSlots > MAX_DIR_ENTRIES - 1)

C8_Witness ==
  /\ result = "OutOfDirectorySpace"
  /\ Len(inputs) = MAX_DIR_ENTRIES - 1
  /\ AllReadable /\ AllNamed83
  /\ TotalSlots = MAX_DIR_ENTRIES

\* C9: the output path is written only as the last step.  A pack that ends with
\* OutputExists, InputOpenFailed, BadFileName, OutOfDirectorySpace or
\* OutOfRomSpace leaves the file at the output path as it was; an output that
\* exists is refused before any input file is opened; and the output differs
\* from what it was only once every input is placed and the image fits.
C9_OutputWrittenLast ==
  /\ result \in { "OutputExists", "InputOpenFailed", "BadFileName",
                  "OutOfDirectorySpace", "OutOfRomSpace" } => romFile = romBefore
  /\ romBefore # Absent => /\ opened = {}
                           /\ result \in { "", "OutputExists" }
                           /\ romFile = romBefore
  /\ romFile # romBefore =>
       /\ opened = InputIds
       /\ iFile = Len(inputs) + 1
       /\ (At(directory, OffDirEntries) * DirEntrySize) + (TotalChunks * BlockSize) <= RomSize

C9_Witness ==
  /\ result = "OutOfRomSpace"
  /\ opened = InputIds
  /\ Len(inputs) >= 2
  /\ TotalChunks <= 64
  /\ romFile = Absent

\* C10: zero padding.  Every file placed so far occupies ceil(len/1024) blocks of
\* the file area, right after the blocks of the files before it, holding its
\* len bytes followed by bytes of value 0x00 up to the block boundary (none when
\* len is a multiple of 1024, no block when len = 0); a successful pack copies
\* the file area into the image at dir_entries*32.
C10_ZeroPadding ==
  /\ pc = "files" =>
       LET area == Load(file_area)
       IN /\ Len(area) = ChunksBefore(iFile) * BlockSize
          /\ \A i \in 1..(iFile - 1) :
               Slice(area, ChunksBefore(i) * BlockSize, ChunksOf(inputs[i]) * BlockSize)
                 = ZeroPadded(inputs[i])
  /\ PackSucceeded =>
       LET image == Unswapped
       IN /\ Len(Load(file_area)) = TotalChunks * BlockSize
          /\ \A i \in InputIds :
               Slice(image,
                     (At(directory, OffDirEntries) * DirEntrySize) + (ChunksBefore(i) * BlockSize),
                     ChunksOf(inputs[i]) * BlockSize)
                 = ZeroPadded(inputs[i])

C10_Witness ==
  /\ PackSucceeded
  /\ \E i \in InputIds :
       LET area == Load(file_area)
       IN /\ inputs[i].len = BlockSize + 1
          /\ inputs[i].fill = 85
          /\ At(area, (ChunksBefore(i) * BlockSize) + BlockSize) = 85
          /\ At(area, (ChunksBefore(i) * BlockSize) + BlockSize + 1) = 0
          /\ At(area, (ChunksBefore(i) * BlockSize) + (2 * BlockSize) - 1) = 0

====
